---- MODULE Spec2Model ----
(***************************************************************************)
(* The thoughts API of js-project-api (final revision, src/unnamed/        *)
(* part_000): an express router over two mongoose collections, users and   *)
(* thoughts.  Every handler is an async function; between two awaits the   *)
(* single-threaded runtime runs it without interruption, so one step of    *)
(* the model is one store operation together with the synchronous code     *)
(* around it.  Several requests may be in flight at once.  A field of a    *)
(* request is drawn at the step that first uses it.                        *)
(***************************************************************************)
EXTENDS Integers, Sequences, FiniteSets, TLC

VARIABLES
  users,        \* the users collection: a set of documents
  thoughts,     \* the thoughts collection: a set of documents
  nextThought,  \* ObjectId generator of the thoughts collection
  clock,        \* Date.now()
  reqs,         \* the requests in flight, one per connection
  last,         \* the response the latest step sent, if it sent one
  likes,        \* history: per thought id, the like requests answered 200
  regLog        \* history: what every 201 of /register answered

vars == <<users, thoughts, nextThought, clock, reqs, last, likes, regLog>>

store == <<users, thoughts>>

----------------------------------------------------------------------------
(* Bounds of the model *)

MaxThoughts == 1     \* thoughts created in one behaviour
MaxListed == 3       \* thoughts created in one behaviour of SpecList
MaxLikes == 2        \* likes answered 200 per thought

Conns == {"c1", "c2"}

(* Program constants *)

MinMessage == 5      \* ThoughtSchema.message.minlength
MaxMessage == 140    \* ThoughtSchema.message.maxlength
MinPassword == 6     \* UserSchema.password.minlength
BcryptBytes == 72    \* bcrypt reads the first 72 bytes of the password
DefaultPage == 1
DefaultLimit == 5

----------------------------------------------------------------------------
(* Values *)

\* A field the request does not carry (undefined in the handler).
Undefined == "<undefined>"

\* the string of n characters c
RECURSIVE Rep(_, _)
Rep(c, n) ==
  IF n = 0 THEN ""
  ELSE LET half == Rep(c, n \div 2)
       IN half \o half \o (IF n % 2 = 1 THEN c ELSE "")

Min(a, b) == IF a < b THEN a ELSE b

\* Math.ceil(a / b) for a >= 0, b >= 1
Ceil(a, b) == (a + b - 1) \div b

\* crypto.randomBytes(128).toString("hex"): a token no other user holds
NewToken(n) == "tok" \o ToString(n)

\* s[i] of a string
Char(s, i) == SubSeq(s, i, i)

\* /.+@.+\..+/ : an "@" after at least one character, then at least one
\* character, a ".", and at least one character more (unanchored)
MatchEmail(s) ==
  \E i \in 2..Len(s) : \E j \in (i + 2)..(Len(s) - 1) :
    Char(s, i) = "@" /\ Char(s, j) = "."

\* mongoose's required validator for a String path
Required(v) == v # Undefined /\ v # ""

\* bcrypt.hashSync(password, bcrypt.genSaltSync()): the digest is a function
\* of the salt and of the first 72 bytes of the password; the salt is kept
\* in the digest, so that comparing recomputes the same function
Key(password) == SubSeq(password, 1, Min(BcryptBytes, Len(password)))
hashSync(password) == "$2b$10$" \o Key(password)

\* bcrypt.compareSync(password, hash)
compareSync(password, hash) == hashSync(password) = hash

\* a bcrypt digest is 60 characters whatever the password
DigestLen == 60

\* JavaScript truthiness of a string-or-undefined value
Truthy(v) == v # Undefined /\ v # ""

----------------------------------------------------------------------------
(* Documents, requests and responses *)

NoDoc == [id |-> 0, message |-> "", hearts |-> 0, createdAt |-> 0, createdBy |-> 0]

\* a query parameter that is absent
NoParam == -1
\* an id that is no ObjectId (findById throws a CastError)
BadId == -1

\* a request: what it carries (auth, id, message, email, password, page,
\* limit) and the handler's locals (user: req.user or the creator, loaded:
\* the message of the document findById loaded, total: countDocuments())
Idle ==
  [kind |-> "idle", pc |-> "idle", auth |-> Undefined, id |-> 0,
   message |-> Undefined, email |-> Undefined, password |-> Undefined,
   page |-> 0, limit |-> 0, user |-> 0, loaded |-> Undefined, total |-> 0]

\* a response: the request it answers, the status, and what the body holds
Response(req, status) ==
  [req |-> req, status |-> status, accessToken |-> Undefined, doc |-> NoDoc,
   results |-> <<>>, totalThoughts |-> 0, totalPages |-> 0]

\* no response
Silence == Response(Idle, 0)

\* res.status(...).json(...): the handler ends
Respond(c, r) ==
  /\ reqs' = [reqs EXCEPT ![c] = Idle]
  /\ last' = r

\* the handler awaits the store again
Await(c, req) ==
  /\ reqs' = [reqs EXCEPT ![c] = req]
  /\ last' = Silence

Init ==
  /\ users = {}
  /\ thoughts = {}
  /\ nextThought = 1
  /\ clock = 0
  /\ reqs = [c \in Conns |-> Idle]
  /\ last = Silence
  /\ likes = [i \in 1..MaxThoughts |-> 0]
  /\ regLog = {}

----------------------------------------------------------------------------
(* The store's queries *)

\* User.findOne({ accessToken }): the id of the user, 0 when there is none
UserByToken(accessToken) ==
  IF \E u \in users : u.accessToken = accessToken
  THEN (CHOOSE u \in users : u.accessToken = accessToken).id
  ELSE 0

\* User.findOne({ email })
UsersByEmail(email) == {u \in users : u.email = email}

\* Thought.findById(id)
ThoughtsById(id) == {t \in thoughts : t.id = id}

----------------------------------------------------------------------------
(* POST /register *)

\* UserSchema's validators, run by save() on the document to insert
ValidUser(doc) ==
  /\ Required(doc.email) /\ MatchEmail(doc.email)
  /\ Required(doc.password) /\ DigestLen >= MinPassword

\* a collection without the index
NoIndex(doc) == TRUE

\* the unique index on email, enforced by the store on insert
UniqueEmail(doc) == UsersByEmail(doc.email) = {}

\* the request arrives; the fields are checked and findOne({ email }) runs
Register(c, email, password) ==
  /\ reqs[c].kind = "idle"
  /\ LET req == [Idle EXCEPT !.kind = "register", !.email = email,
                             !.password = password]
     IN IF ~Truthy(email) \/ ~Truthy(password)
        THEN Respond(c, Response(req, 400))
        ELSE IF UsersByEmail(email) # {}
        THEN Respond(c, Response(req, 400))
        ELSE Await(c, [req EXCEPT !.pc = "save"])
  /\ UNCHANGED <<users, thoughts, nextThought, clock, likes, regLog>>

\* the password is hashed and new User({ email, password: hashed }).save() runs
RegisterSave(c) ==
  /\ reqs[c].kind = "register" /\ reqs[c].pc = "save"
  /\ LET req == reqs[c]
         newUser == [id |-> Cardinality(users) + 1,
                     email |-> req.email,
                     password |-> hashSync(req.password),
                     accessToken |-> NewToken(Cardinality(users) + 1)]
     IN IF ValidUser(newUser) /\ UniqueEmail(newUser)
        THEN /\ users' = users \cup {newUser}
             /\ regLog' = regLog \cup
                  {[email |-> req.email, password |-> req.password,
                    accessToken |-> newUser.accessToken]}
             /\ Respond(c, [Response(req, 201) EXCEPT
                              !.accessToken = newUser.accessToken])
        ELSE /\ Respond(c, Response(req, 400))
             /\ UNCHANGED <<users, regLog>>
  /\ UNCHANGED <<thoughts, nextThought, clock, likes>>

----------------------------------------------------------------------------
(* POST /login *)

\* a login that issues a fresh accessToken to the user it lets in
LoginRotating(c, email, password) ==
  /\ reqs[c].kind = "idle"
  /\ LET req == [Idle EXCEPT !.kind = "login", !.email = email,
                             !.password = password]
         found == UsersByEmail(email)
     IN IF found = {}
        THEN Respond(c, Response(req, 401)) /\ UNCHANGED users
        ELSE \E user \in found :
               IF password = Undefined
               THEN Respond(c, Response(req, 400)) /\ UNCHANGED users
               ELSE IF ~compareSync(password, user.password)
               THEN Respond(c, Response(req, 401)) /\ UNCHANGED users
               ELSE LET fresh == NewToken(user.id + Cardinality(users))
                    IN /\ users' = (users \ {user}) \cup
                                     {[user EXCEPT !.accessToken = fresh]}
                       /\ Respond(c, [Response(req, 200) EXCEPT
                                        !.accessToken = fresh])
  /\ UNCHANGED <<thoughts, nextThought, clock, likes, regLog>>

Login(c, email, password) ==
  /\ reqs[c].kind = "idle"
  /\ LET req == [Idle EXCEPT !.kind = "login", !.email = email,
                             !.password = password]
         found == UsersByEmail(email)
     IN IF found = {}
        THEN Respond(c, Response(req, 401))
        ELSE \E user \in found :
               IF password = Undefined
               THEN Respond(c, Response(req, 400))   \* compareSync throws
               ELSE IF ~compareSync(password, user.password)
               THEN Respond(c, Response(req, 401))
               ELSE Respond(c, [Response(req, 200) EXCEPT
                                  !.accessToken = user.accessToken])
  /\ UNCHANGED <<users, thoughts, nextThought, clock, likes, regLog>>

----------------------------------------------------------------------------
(* GET /thoughts *)

\* the orders of the documents S, newest first; documents of one createdAt
\* come in whatever order the store yields them
RECURSIVE NewestFirst(_)
NewestFirst(S) ==
  IF S = {} THEN {<<>>}
  ELSE UNION {{<<t>> \o rest : rest \in NewestFirst(S \ {t})} :
                t \in {x \in S : \A y \in S : x.createdAt >= y.createdAt}}

\* find().sort({ createdAt: -1 })
SortedByCreatedAt == NewestFirst(thoughts)

\* the offset one page too far
SkipPageTimesLimit(page, limit) == page * limit

\* .skip((page - 1) * limit)
Skip(page, limit) == (page - 1) * limit

\* cursor.skip(skip).limit(limit) over the sorted sequence
Page(sorted, skip, limit) ==
  SubSeq(sorted, skip + 1, Min(skip + limit, Len(sorted)))

\* const { page = 1, limit = 5 } = req.query
PageOr(page) == IF page = NoParam THEN DefaultPage ELSE page
LimitOr(limit) == IF limit = NoParam THEN DefaultLimit ELSE limit

\* the request arrives and countDocuments() runs
ListThoughts(c) ==
  /\ reqs[c].kind = "idle"
  /\ Await(c, [Idle EXCEPT !.kind = "list", !.pc = "find",
                           !.total = Cardinality(thoughts)])
  /\ UNCHANGED <<users, thoughts, nextThought, clock, likes, regLog>>

\* find().sort().skip().limit() runs and the page is answered
ListFind(c, page, limit) ==
  /\ reqs[c].kind = "list" /\ reqs[c].pc = "find"
  /\ LET req == [reqs[c] EXCEPT !.page = page, !.limit = limit]
     IN \E sorted \in SortedByCreatedAt :
          Respond(c, [Response(req, 200) EXCEPT
                        !.totalThoughts = req.total,
                        !.totalPages = Ceil(req.total, LimitOr(limit)),
                        !.results = Page(sorted,
                                         Skip(PageOr(page), LimitOr(limit)),
                                         LimitOr(limit))])
  /\ UNCHANGED <<users, thoughts, nextThought, clock, likes, regLog>>

----------------------------------------------------------------------------
(* GET /thoughts/:id *)

GetThought(c, id) ==
  /\ reqs[c].kind = "idle"
  /\ LET req == [Idle EXCEPT !.kind = "get", !.id = id]
     IN IF id = BadId
        THEN Respond(c, Response(req, 400))
        ELSE IF ThoughtsById(id) = {}
        THEN Respond(c, Response(req, 404))
        ELSE \E thought \in ThoughtsById(id) :
               Respond(c, [Response(req, 200) EXCEPT !.doc = thought])
  /\ UNCHANGED <<users, thoughts, nextThought, clock, likes, regLog>>

----------------------------------------------------------------------------
(* POST /thoughts *)

\* the validators with maxlength left out
ValidMessageNoMax(message) ==
  /\ Required(message)
  /\ Len(message) >= MinMessage

\* ThoughtSchema's validators on message
ValidMessage(message) ==
  /\ Required(message)
  /\ Len(message) >= MinMessage
  /\ Len(message) <= MaxMessage

\* new Thought({ message, createdBy }).save(): createdAt is Date.now(),
\* which has or has not moved on since the thought before
SaveNewThought(c, req) ==
  IF ValidMessage(req.message)
  THEN \E now \in {clock, clock + 1} :
         LET savedThought == [id |-> nextThought, message |-> req.message,
                              hearts |-> 0, createdAt |-> now,
                              createdBy |-> req.user]
         IN /\ thoughts' = thoughts \cup {savedThought}
            /\ nextThought' = nextThought + 1
            /\ clock' = now
            /\ Respond(c, [Response(req, 201) EXCEPT !.doc = savedThought])
  ELSE /\ Respond(c, Response(req, 400))
       /\ UNCHANGED <<thoughts, nextThought, clock>>

\* the request arrives without an Authorization header: createdBy stays null
\* and the thought is saved at once
CreateThought(c, auth, message) ==
  /\ reqs[c].kind = "idle"
  /\ ~Truthy(auth)
  /\ SaveNewThought(c, [Idle EXCEPT !.kind = "create", !.auth = auth,
                                    !.message = message])
  /\ UNCHANGED <<users, likes, regLog>>

\* POST /thoughts behind authenticateUser: a token nobody holds gets the 401
CreateLookupGated(c, auth) ==
  /\ reqs[c].kind = "idle"
  /\ Truthy(auth)
  /\ LET req == [Idle EXCEPT !.kind = "create", !.auth = auth]
     IN IF UserByToken(auth) # 0
        THEN Await(c, [req EXCEPT !.pc = "save", !.user = UserByToken(auth)])
        ELSE Respond(c, Response(req, 401))
  /\ UNCHANGED <<users, thoughts, nextThought, clock, likes, regLog>>

\* the request arrives with an Authorization header: User.findOne runs
CreateLookup(c, auth) ==
  /\ reqs[c].kind = "idle"
  /\ Truthy(auth)
  /\ Await(c, [Idle EXCEPT !.kind = "create", !.pc = "save", !.auth = auth,
                           !.user = UserByToken(auth)])
  /\ UNCHANGED <<users, thoughts, nextThought, clock, likes, regLog>>

CreateSave(c, message) ==
  /\ reqs[c].kind = "create" /\ reqs[c].pc = "save"
  /\ SaveNewThought(c, [reqs[c] EXCEPT !.message = message])
  /\ UNCHANGED <<users, likes, regLog>>

----------------------------------------------------------------------------
(* POST /thoughts/:id/like *)

\* findByIdAndUpdate(id, { $inc: { hearts: 1 } }, { new: true })
IncHearts(thought) == [thought EXCEPT !.hearts = @ + 1]

LikeThought(c, id) ==
  /\ reqs[c].kind = "idle"
  /\ LET req == [Idle EXCEPT !.kind = "like", !.id = id]
     IN IF id = BadId
        THEN /\ Respond(c, Response(req, 400))
             /\ UNCHANGED <<thoughts, likes>>
        ELSE IF ThoughtsById(id) = {}
        THEN /\ Respond(c, Response(req, 404))
             /\ UNCHANGED <<thoughts, likes>>
        ELSE \E thought \in ThoughtsById(id) :
               /\ likes[id] < MaxLikes
               /\ thoughts' = (thoughts \ {thought}) \cup {IncHearts(thought)}
               /\ likes' = [likes EXCEPT ![id] = @ + 1]
               /\ Respond(c, [Response(req, 200) EXCEPT
                                !.doc = IncHearts(thought)])
  /\ UNCHANGED <<users, nextThought, clock, regLog>>

----------------------------------------------------------------------------
(* authenticateUser, then PATCH /thoughts/:id and DELETE /thoughts/:id *)

\* the gate testing only that a header came
HasHeader(accessToken) == Truthy(accessToken)

\* authenticateUser: User.findOne({ accessToken }) decides between next()
\* and the 401
Authenticated(accessToken) == UserByToken(accessToken) # 0

\* the test without its first disjunct: an ownerless thought passes
OwnsOrOwnerless(user, thought) ==
  thought.createdBy = 0 \/ thought.createdBy = user

\* the handler's ownership test: the thought has an owner and it is req.user
Owns(user, thought) == thought.createdBy # 0 /\ thought.createdBy = user

\* the request arrives and authenticateUser runs
Authenticate(c, kind, auth, id) ==
  /\ reqs[c].kind = "idle"
  /\ LET req == [Idle EXCEPT !.kind = kind, !.auth = auth, !.id = id]
     IN IF Authenticated(auth)
        THEN Await(c, [req EXCEPT !.pc = "findById",
                                  !.user = UserByToken(auth)])
        ELSE Respond(c, Response(req, 401))
  /\ UNCHANGED <<users, thoughts, nextThought, clock, likes, regLog>>

PatchThought(c, auth, id) == Authenticate(c, "patch", auth, id)

DeleteThought(c, auth, id) == Authenticate(c, "delete", auth, id)

\* Thought.findById(id), the 404 and the 403; an owner goes on to pc = next
\* holding the loaded document, of which the model keeps the message
FindOwned(c, kind, next) ==
  /\ reqs[c].kind = kind /\ reqs[c].pc = "findById"
  /\ LET req == reqs[c]
     IN IF req.id = BadId
        THEN Respond(c, Response(req, 400))
        ELSE IF ThoughtsById(req.id) = {}
        THEN Respond(c, Response(req, 404))
        ELSE \E thought \in ThoughtsById(req.id) :
               IF ~Owns(req.user, thought)
               THEN Respond(c, Response(req, 403))
               ELSE Await(c, [req EXCEPT !.pc = next,
                                         !.loaded = thought.message])
  /\ UNCHANGED <<users, thoughts, nextThought, clock, likes, regLog>>

PatchFind(c) == FindOwned(c, "patch", "save")

DeleteFind(c) == FindOwned(c, "delete", "deleteOne")

\* a save that replaces the document by { message }: hearts is the default
ReplaceByMessage(stored, message) ==
  [stored EXCEPT !.message = message, !.hearts = 0]

\* save() of a loaded document writes the paths that were modified:
\* updateOne({ _id }, { $set: { message } })
SetMessage(stored, message) == [stored EXCEPT !.message = message]

\* thought.message = req.body.message; await thought.save()
PatchSave(c, message) ==
  /\ reqs[c].kind = "patch" /\ reqs[c].pc = "save"
  /\ LET req == [reqs[c] EXCEPT !.message = message]
     IN IF ~ValidMessage(message)
        THEN /\ Respond(c, Response(req, 400))
             /\ UNCHANGED thoughts
        ELSE IF message = req.loaded
        THEN \* nothing was modified: save() writes nothing
             /\ Respond(c, Response(req, 200))
             /\ UNCHANGED thoughts
        ELSE IF ThoughtsById(req.id) = {}
        THEN \* the document is gone: DocumentNotFoundError
             /\ Respond(c, Response(req, 400))
             /\ UNCHANGED thoughts
        ELSE \E stored \in ThoughtsById(req.id) :
               /\ thoughts' = (thoughts \ {stored}) \cup
                                {SetMessage(stored, message)}
               /\ Respond(c, Response(req, 200))
  /\ UNCHANGED <<users, nextThought, clock, likes, regLog>>

\* await thought.deleteOne(); res.status(204).end()
DeleteOne(c) ==
  /\ reqs[c].kind = "delete" /\ reqs[c].pc = "deleteOne"
  /\ thoughts' = thoughts \ ThoughtsById(reqs[c].id)
  /\ Respond(c, Response(reqs[c], 204))
  /\ UNCHANGED <<users, nextThought, clock, likes, regLog>>

----------------------------------------------------------------------------
(* The specifications: the program serving requests drawn from an alphabet *)

\* the tokens a client can present: none, one nobody was issued, or any the
\* program has issued
Auths == {Undefined, "forged"} \cup {u.accessToken : u \in users}
Ids == (1..MaxThoughts) \cup {BadId}

\* the alphabets requests are drawn from
Emails == {Undefined, "nomail", "a@x.io", "b@x.io"}
TwoEmails == {"a@x.io", "b@x.io"}
OneEmail == {"a@x.io"}
Passwords ==
  {Undefined, "abc", "secret", Rep("a", BcryptBytes),
   Rep("a", BcryptBytes) \o "a", Rep("a", BcryptBytes) \o "b"}
OnePassword == {"secret"}
Messages ==
  {Undefined, "", Rep("m", MinMessage - 1), Rep("m", MinMessage),
   Rep("w", MaxMessage), Rep("w", MaxMessage + 1)}
SomeMessages == {Rep("m", MinMessage - 1), Rep("m", MinMessage), Rep("w", MaxMessage)}
Pages == {NoParam, 1, 2}
Limits == {NoParam, 1, 2}

\* the model creates at most cap thoughts in one behaviour
Room(cap) == nextThought <= cap

\* one step of connection c on /register or /login
ServeUsers(c, E, P) ==
  \/ \E email \in E, password \in P : Register(c, email, password)
  \/ RegisterSave(c)
  \/ \E email \in E, password \in P : Login(c, email, password)

\* one step of connection c on POST /thoughts, /like or PATCH
ServeThoughts(c, M, I) ==
  \/ Room(MaxThoughts) /\ \E auth \in Auths, message \in M :
       CreateThought(c, auth, message)
  \/ \E auth \in Auths : CreateLookup(c, auth)
  \/ Room(MaxThoughts) /\ \E message \in M : CreateSave(c, message)
  \/ \E id \in I : LikeThought(c, id)
  \/ \E auth \in Auths, id \in I : PatchThought(c, auth, id)
  \/ PatchFind(c)
  \/ \E message \in M : PatchSave(c, message)

\* one step of connection c on DELETE
ServeDelete(c, I) ==
  \/ \E auth \in Auths, id \in I : DeleteThought(c, auth, id)
  \/ DeleteFind(c)
  \/ DeleteOne(c)

\* one step of connection c on GET /thoughts or GET /thoughts/:id
ServeReads(c, I, PG, LM) ==
  \/ ListThoughts(c)
  \/ \E page \in PG, limit \in LM : ListFind(c, page, limit)
  \/ \E id \in I : GetThought(c, id)

\* every endpoint, on every connection
Next ==
  \E c \in Conns :
    \/ ServeUsers(c, TwoEmails, OnePassword)
    \/ ServeThoughts(c, SomeMessages, Ids)
    \/ ServeDelete(c, Ids)
    \/ ServeReads(c, Ids, {NoParam}, {1})

Spec == Init /\ [][Next]_vars

\* registrations and logins racing on every connection
NextUsers == \E c \in Conns : ServeUsers(c, Emails, Passwords)

SpecUsers == Init /\ [][NextUsers]_vars

\* one user's thoughts created, liked and edited, on every connection
NextThoughts ==
  \E c \in Conns :
    \/ \E password \in OnePassword : Register(c, "a@x.io", password)
    \/ RegisterSave(c)
    \/ ServeThoughts(c, Messages, Ids)

SpecThoughts == Init /\ [][NextThoughts]_vars

\* thoughts posted without a token and listed, on every connection
NextList ==
  \E c \in Conns :
    \/ Room(MaxListed) /\ CreateThought(c, Undefined, Rep("m", MinMessage))
    \/ ServeReads(c, 1..MaxListed, Pages, Limits)

SpecList == Init /\ [][NextList]_vars

----------------------------------------------------------------------------
(* Ownership *)

\* the step changed the message of stored thought t or removed it
Touched(t) ==
  ~\E t2 \in thoughts' : t2.id = t.id /\ t2.message = t.message

\* connection c took the step, on a PATCH or DELETE of thought t it had
\* authenticated user u for
ActsOn(c, t) ==
  /\ reqs[c].kind \in {"patch", "delete"}
  /\ reqs[c].id = t.id
  /\ reqs'[c] = Idle

\* connection c, holding an authenticated PATCH or DELETE, ran findById
Looked(c) ==
  /\ reqs[c].kind \in {"patch", "delete"}
  /\ reqs[c].pc = "findById"
  /\ reqs'[c] # reqs[c]

\* C1: a PATCH or DELETE by an authenticated user who is not the thought's
\* createdBy (an ownerless thought has no such user) is answered 403 and
\* leaves the thoughts as they are; whenever a stored thought loses its
\* message or is removed, the step is the PATCH or DELETE of the user its
\* createdBy names.
C1_OnlyOwnerMutates ==
  [][ /\ \A c \in Conns : \A t \in thoughts :
           (Looked(c) /\ t.id = reqs[c].id /\ t.createdBy # reqs[c].user)
             => (last'.status = 403 /\ last'.req = reqs[c] /\ thoughts' = thoughts)
      /\ \A t \in thoughts :
           Touched(t) => \E c \in Conns :
                           /\ ActsOn(c, t)
                           /\ t.createdBy # 0
                           /\ reqs[c].user = t.createdBy
    ]_vars

\* a PATCH of a thought another user owns was answered 403
C1_Witness ==
  /\ last.req.kind = "patch"
  /\ last.status = 403
  /\ \E t \in thoughts :
       t.id = last.req.id /\ t.createdBy # 0 /\ t.createdBy # last.req.user

\* a DELETE of an ownerless thought was answered 403
C1_WitnessOwnerless ==
  /\ last.req.kind = "delete"
  /\ last.status = 403
  /\ \E t \in thoughts : t.id = last.req.id /\ t.createdBy = 0

----------------------------------------------------------------------------
(* The authentication gate *)

\* some stored user holds the token
Holds(accessToken) == \E u \in users : u.accessToken = accessToken

\* C6: a PATCH or DELETE whose Authorization header is absent or is no stored
\* user's accessToken is answered 401 at once, before findById runs and
\* whatever its id, and the store stays as it is.
C6_NoTokenNoLookup ==
  [][ (last'.req.kind \in {"patch", "delete"} /\ ~Holds(last'.req.auth))
        => /\ last'.status = 401
           /\ last'.req.pc = "idle"
           /\ store' = store
           /\ \A c \in Conns : reqs'[c] = reqs[c]
    ]_vars

\* a PATCH without a stored user's token, of a thought that is stored and
\* owned, was answered 401
C6_Witness ==
  /\ last.req.kind = "patch"
  /\ last.status = 401
  /\ ~Holds(last.req.auth)
  /\ \E t \in thoughts : t.id = last.req.id /\ t.createdBy # 0

----------------------------------------------------------------------------
(* The users collection *)

\* C9: the users collection changes only by a /register answered 201, which
\* adds one record; no step changes or removes a stored user's record.
C9_UsersOnlyRegistered ==
  [][ /\ users \subseteq users'
      /\ users' # users =>
           /\ Cardinality(users') = Cardinality(users) + 1
           /\ last'.req.kind = "register"
           /\ last'.status = 201
           /\ \E c \in Conns : reqs[c].kind = "register" /\ reqs'[c] = Idle
    ]_vars

\* with a user stored, a thought of theirs was deleted
C9_Witness ==
  /\ users # {}
  /\ last.req.kind = "delete"
  /\ last.status = 204
  /\ \E u \in users : u.id = last.req.user

----------------------------------------------------------------------------
(* The creator of a thought *)

\* the id of the user the token belongs to, 0 (null) without one
OwnerOf(accessToken) ==
  IF Holds(accessToken)
  THEN (CHOOSE u \in users : u.accessToken = accessToken).id
  ELSE 0

\* a message of 5 to 140 characters
InRange(message) ==
  /\ message # Undefined
  /\ Len(message) >= 5
  /\ Len(message) <= 140

\* the answer to a POST /thoughts is as C10 says
CreatedAsAsked ==
  last.req.kind = "create" =>
    /\ last.status # 401
    /\ InRange(last.req.message) =>
         /\ last.status = 201
         /\ last.doc \in thoughts
         /\ last.doc.createdBy = OwnerOf(last.req.auth)

\* C10: POST /thoughts is never answered 401; with a valid message it stores
\* the thought with createdBy the user the Authorization header is the token
\* of, and null when the header is absent or is nobody's token; and no step
\* changes the createdBy of a stored thought.
C10_CreatedByFixed ==
  [][ /\ CreatedAsAsked'
      /\ \A t \in thoughts : \A t2 \in thoughts' :
           t2.id = t.id => t2.createdBy = t.createdBy
    ]_vars

\* a thought created without a resolving token, hence ownerless, was liked
\* and is still ownerless
C10_Witness ==
  /\ last.req.kind = "like"
  /\ last.status = 200
  /\ last.doc.createdBy = 0
  /\ last.doc \in thoughts

\* a POST with a token nobody holds was answered 201
C10_WitnessForged ==
  /\ last.req.kind = "create"
  /\ last.req.auth = "forged"
  /\ last.status = 201
  /\ last.doc.createdBy = 0

----------------------------------------------------------------------------
(* Hearts *)

\* the step was a like of thought i answered 200
Liked(i) ==
  last'.req.kind = "like" /\ last'.req.id = i /\ last'.status = 200

\* C3: the hearts of a stored thought are the number of likes of it that
\* were answered 200 (two likes make 2), however the likes interleave with
\* each other and with the steps of a PATCH of the thought; a like answered
\* 200 adds exactly one heart and no step takes hearts away.
C3_HeartsCountLikes ==
  [][ /\ \A t \in thoughts' : t.hearts = likes'[t.id]
      /\ \A t \in thoughts : \A t2 \in thoughts' :
           t2.id = t.id =>
             t2.hearts = t.hearts + (IF Liked(t.id) /\ last'.doc = t2 THEN 1 ELSE 0)
    ]_vars

\* a thought liked twice holds 2 hearts after a PATCH that rewrote its message
C3_Witness ==
  /\ last.req.kind = "patch"
  /\ last.status = 200
  /\ last.req.loaded # last.req.message
  /\ \E t \in thoughts :
       t.id = last.req.id /\ t.hearts = 2 /\ t.message = last.req.message

----------------------------------------------------------------------------
(* The length of a message *)

\* C4: every stored thought has a message of 5 to 140 characters; a POST
\* /thoughts and an owner's PATCH with a message that is missing, shorter or
\* longer are answered 400, and a step answering 400 leaves the thoughts as
\* they are.
C4_MessagesInRange ==
  [][ /\ \A t \in thoughts' : InRange(t.message)
      /\ (last'.req.kind = "create" /\ ~InRange(last'.req.message))
           => last'.status = 400
      /\ (last'.req.kind = "patch" /\ last'.req.pc = "save"
            /\ ~InRange(last'.req.message))
           => last'.status = 400
      /\ last'.status = 400 => thoughts' = thoughts
    ]_vars

\* the owner's PATCH with a message of 141 characters was answered 400 and
\* the thought is stored with the message it had
C4_Witness ==
  /\ last.req.kind = "patch"
  /\ last.req.pc = "save"
  /\ last.status = 400
  /\ Len(last.req.message) = 141
  /\ \E t \in thoughts : t.id = last.req.id /\ t.message = last.req.loaded

----------------------------------------------------------------------------
(* Registration and login *)

\* no two stored users share an email
NoTwoUsersOfAnEmail ==
  \A u1, u2 \in users : u1.email = u2.email => u1 = u2

\* no two registrations of one email were answered 201
OneCreatedPerEmail ==
  \A r1, r2 \in regLog : r1.email = r2.email => r1 = r2

\* C2: a /register with the email of a stored user is answered 400 and adds
\* no record; however registrations interleave, no two stored users share an
\* email and at most one registration of an email is answered 201.
C2_EmailsUnique ==
  [][ /\ NoTwoUsersOfAnEmail'
      /\ OneCreatedPerEmail'
      /\ (last'.req.kind = "register"
            /\ \E u \in users : u.email = last'.req.email)
           => (last'.status = 400 /\ users' = users)
    ]_vars

\* a registration that found no user of its email was answered 400 by the
\* save, a concurrent registration of the email having been stored first
C2_Witness ==
  /\ last.req.kind = "register"
  /\ last.req.pc = "save"
  /\ last.status = 400
  /\ \E u \in users : u.email = last.req.email

\* C5 as stated: a login with a registered email and a password other than the
\* one registered, or with an email nobody registered, is answered 401 without
\* accessToken; with the registered email and password it is answered 200
\* with the accessToken /register answered.
C5_LoginChecksPassword ==
  (last.req.kind = "login" /\ last.req.password # Undefined) =>
    LET given == {r \in regLog : r.email = last.req.email}
    IN IF \A r \in given : r.password # last.req.password
       THEN last.status = 401 /\ last.accessToken = Undefined
       ELSE last.status = 200
            /\ \A r \in given : last.accessToken = r.accessToken

\* C7 as stated: a /register with a password of 1 to 5 characters is answered
\* 400 and stores no user.
C7_ShortPasswordRejected ==
  (last.req.kind = "register" /\ Truthy(last.req.password)
     /\ Len(last.req.password) < 6)
    => /\ last.status = 400
       /\ ~\E u \in users : u.email = last.req.email

----------------------------------------------------------------------------
(* The page of a listing *)

\* page and limit as C8 reads them
AskedPage(page) == IF page = NoParam THEN 1 ELSE page
AskedLimit(limit) == IF limit = NoParam THEN 5 ELSE limit

\* the thoughts created after t, and those created no earlier than t
Newer(t) == {x \in thoughts : x.createdAt > t.createdAt}
NotOlder(t) == {x \in thoughts : x.createdAt >= t.createdAt}

\* t can stand at position k of the thoughts ordered by createdAt descending
AtPosition(t, k) ==
  /\ t \in thoughts
  /\ Cardinality(Newer(t)) < k
  /\ Cardinality(NotOlder(t)) >= k

\* the least number of pages of L thoughts that hold n thoughts
PagesFor(n, L) == CHOOSE k \in 0..n : k * L >= n /\ (k = 0 \/ (k - 1) * L < n)

\* the listing answered last is as C8 says, of the store it was read from
ListedAsAsked ==
  last.req.kind = "list" =>
    LET P == AskedPage(last.req.page)
        L == AskedLimit(last.req.limit)
        n == Cardinality(thoughts)
        first == (P - 1) * L + 1
        count == IF n >= P * L THEN L ELSE IF n >= first THEN n - first + 1 ELSE 0
    IN /\ last.status = 200
       /\ Len(last.results) = count
       /\ \A i \in 1..count : AtPosition(last.results[i], first + i - 1)
       /\ \A i, j \in 1..count : i # j => last.results[i] # last.results[j]
       /\ last.totalThoughts = last.req.total
       /\ last.totalPages = PagesFor(last.totalThoughts, L)

\* C8: for page P >= 1 and limit L >= 1 (1 and 5 when absent) the listing
\* answers the thoughts at positions (P-1)*L+1 .. P*L of the store ordered by
\* createdAt descending, L of them when P*L exist, with totalThoughts the size
\* countDocuments() found the store to have and totalPages the ceiling of
\* totalThoughts / L.
C8_PageOfStore ==
  [][ /\ ListedAsAsked'
      /\ \A c \in Conns :
           (reqs'[c].kind = "list" /\ reqs[c].kind = "idle")
             => reqs'[c].total = Cardinality(thoughts)
    ]_vars

\* of three thoughts, page 1 of limit 2 answered the two newest and 2 pages
C8_Witness ==
  /\ last.req.kind = "list"
  /\ last.req.page = 1 /\ last.req.limit = 2
  /\ Cardinality(thoughts) = 3
  /\ Len(last.results) = 2
  /\ last.totalThoughts = 3
  /\ last.totalPages = 2

====
